---- MODULE Spec2Model ----
(***************************************************************************)
(* Model of packages/core: the configurable test double MockHorizonClient  *)
(* (services/mock_horizon.rs), the application error type AppError         *)
(* (error.rs) and the database bootstrap create_pool (db.rs).              *)
(*                                                                         *)
(* Three specifications share the module:                                  *)
(*   Spec       the mock, its builders and its FeeDataProvider operations  *)
(*   SpecError  AppError: Display and IntoResponse                         *)
(*   SpecDb     create_pool and repeated migration runs                    *)
(***************************************************************************)
EXTENDS Integers, Sequences, FiniteSets

\* ------------------------------------------------------------------ bounds
MaxLen == 2
NumCallers == 2
MaxCalls == 2
MaxMsgLen == 2
MaxRows == 2
MaxRuns == 3

VARIABLES
    mock,          \* the MockHorizonClient value: responses, error, call_count, healthy
    pc,            \* per caller: position inside fetch_latest_fees
    invoked,       \* number of fetch_latest_fees invocations begun
    returned,      \* fetch_latest_fees invocations that have returned, by outcome
    last,          \* the last step taken and what it returned
    first_fetch,   \* first fetch observed since points/error were last configured
    last_fetch,    \* latest later fetch observed since then (None until the second)
    hcSeen,        \* every (healthy flag, health_check result) pair observed
    fees_given,    \* argument of the last with_fees call
    error_given,   \* argument of the last with_error call (None if never called)
    app_err,       \* the AppError value at hand (None once consumed)
    display,       \* its to_string(), once taken
    response,      \* the latest response built by into_response
    prev_response, \* the response built before that
    dbs,           \* the databases, by connection string
    pool,          \* the open SqlitePool (the connection string it is connected to)
    runs,          \* migration runs made on the open pool after create_pool
    db_last        \* the last database step and its outcome

mockVars == << mock, pc, invoked, returned, last, first_fetch, last_fetch, hcSeen,
               fees_given, error_given >>
errVars == << app_err, display, response, prev_response >>
dbVars == << dbs, pool, runs, db_last >>
vars == << mockVars, errVars, dbVars >>

\* ------------------------------------------------------------ Rust values
None == << >>
Some(x) == << x >>
Unit == << >>
Ok(v) == [ok |-> TRUE, val |-> v]
Err(e) == [ok |-> FALSE, err |-> e]

SeqUpTo(S, n) == UNION { [1..k -> S] : k \in 0..n }

Callers == 1..NumCallers

\* tests::make_fee_point (timestamp left out: Utc::now() is not compared)
make_fee_point(fee_amount) ==
    [fee_amount |-> fee_amount,
     transaction_hash |-> << "hash_", fee_amount >>,
     ledger_sequence |-> 1]

FeePoints == { make_fee_point(100), make_fee_point(200) }
FeeVecs == SeqUpTo(FeePoints, MaxLen)

Messages == { "simulated timeout", "down" }

\* enum ProviderError, as used by the mock
ProviderError ==
    { [variant |-> "NetworkError", message |-> m] : m \in Messages }
    \cup { [variant |-> "FormatError", message |-> m] : m \in Messages }
    \cup { [variant |-> "AuthError", message |-> "down"] }
    \cup { [variant |-> "RateLimitExceeded"], [variant |-> "ServiceUnavailable"] }

\* ------------------------------------------------------ MockHorizonClient
new ==
    [responses |-> << >>, error |-> None, call_count |-> 0, healthy |-> TRUE]

\* faulty variant: with_fees also forgets a configured error
with_fees_clears_error(self, fees) ==
    [self EXCEPT !.responses = fees, !.error = None]

with_fees(self, fees) == [self EXCEPT !.responses = fees]

with_error(self, error) == [self EXCEPT !.error = Some(error)]

\* faulty variant: with_healthy rebuilds the mock around a fresh counter
with_healthy_fresh_counter(self, healthy) ==
    [self EXCEPT !.healthy = healthy, !.call_count = 0]

with_healthy(self, healthy) == [self EXCEPT !.healthy = healthy]

\* AtomicUsize::load
calls(self) == self.call_count

\* faulty variant: the counter is read but not incremented
fetch_add_lost(cur, val) == cur

\* AtomicUsize::fetch_add: one atomic read-modify-write; the new content of the
\* cell (it wraps at usize::MAX, far beyond MaxCalls)
fetch_add(cur, val) == cur + val

\* faulty variant: the FormatError arm was copied from the NetworkError arm
clone_error_wrong_variant(err) ==
    CASE err.variant = "NetworkError" ->
            [variant |-> "NetworkError", message |-> err.message]
      [] err.variant = "FormatError" ->
            [variant |-> "NetworkError", message |-> err.message]
      [] err.variant = "AuthError" ->
            [variant |-> "AuthError", message |-> err.message]
      [] err.variant = "RateLimitExceeded" -> [variant |-> "RateLimitExceeded"]
      [] err.variant = "ServiceUnavailable" -> [variant |-> "ServiceUnavailable"]

\* the match that rebuilds the configured error variant by variant
clone_error(err) ==
    CASE err.variant = "NetworkError" ->
            [variant |-> "NetworkError", message |-> err.message]
      [] err.variant = "FormatError" ->
            [variant |-> "FormatError", message |-> err.message]
      [] err.variant = "AuthError" ->
            [variant |-> "AuthError", message |-> err.message]
      [] err.variant = "RateLimitExceeded" -> [variant |-> "RateLimitExceeded"]
      [] err.variant = "ServiceUnavailable" -> [variant |-> "ServiceUnavailable"]

Reverse(seq) == [i \in 1..Len(seq) |-> seq[Len(seq) + 1 - i]]

\* faulty variant: the points come back in reverse order
fetch_result_reversed(self) ==
    IF self.error # None
    THEN Err(clone_error(self.error[1]))
    ELSE Ok(Reverse(self.responses))

\* fetch_latest_fees after the counter update: the value it returns
fetch_result(self) ==
    IF self.error # None
    THEN Err(clone_error(self.error[1]))
    ELSE Ok(self.responses)

provider_name(self) == "MockHorizon"

\* faulty variant: health_check also fails when a fetch error is configured
health_check_conflated(self) ==
    IF self.healthy /\ self.error = None
    THEN Ok(Unit)
    ELSE Err([variant |-> "ServiceUnavailable"])

health_check(self) ==
    IF self.healthy THEN Ok(Unit) ELSE Err([variant |-> "ServiceUnavailable"])

\* faulty variant: the batch size is read off the configured points
get_metadata_from_config(self) ==
    [supports_historical |-> FALSE,
     max_batch_size |-> Len(self.responses),
     rate_limit_per_minute |-> None,
     data_freshness_seconds |-> 5]

get_metadata(self) ==
    [supports_historical |-> FALSE,
     max_batch_size |-> 100,
     rate_limit_per_minute |-> None,
     data_freshness_seconds |-> 5]

\* ---------------------------------------------------------------- actions
AllIdle == \A c \in Callers : pc[c] = "idle"

MockInit ==
    /\ mock = new
    /\ pc = [c \in Callers |-> "idle"]
    /\ invoked = 0
    /\ returned = [ok |-> 0, err |-> 0]
    /\ last = [op |-> "new"]
    /\ first_fetch = None
    /\ last_fetch = None
    /\ hcSeen = {}
    /\ fees_given = << >>
    /\ error_given = None

\* The builders take self by value: none can run while a fetch borrows the mock.
WithFees ==
    \E fees \in FeeVecs :
        /\ AllIdle
        /\ mock' = with_fees(mock, fees)
        /\ fees_given' = fees
        /\ first_fetch' = None
        /\ last_fetch' = None
        /\ last' = [op |-> "with_fees"]
        /\ UNCHANGED << pc, invoked, returned, hcSeen, error_given >>
        /\ UNCHANGED << errVars, dbVars >>

WithError ==
    \E error \in ProviderError :
        /\ AllIdle
        /\ mock' = with_error(mock, error)
        /\ error_given' = Some(error)
        /\ first_fetch' = None
        /\ last_fetch' = None
        /\ last' = [op |-> "with_error"]
        /\ UNCHANGED << pc, invoked, returned, hcSeen, fees_given >>
        /\ UNCHANGED << errVars, dbVars >>

WithHealthy ==
    \E healthy \in BOOLEAN :
        /\ AllIdle
        /\ mock' = with_healthy(mock, healthy)
        /\ last' = [op |-> "with_healthy"]
        /\ UNCHANGED << pc, invoked, returned, first_fetch, last_fetch, hcSeen,
                        fees_given, error_given >>
        /\ UNCHANGED << errVars, dbVars >>

\* A caller invokes fetch_latest_fees (&self): the body is about to run.
FetchCall(c) ==
    /\ pc[c] = "idle"
    /\ invoked < MaxCalls
    /\ pc' = [pc EXCEPT ![c] = "called"]
    /\ invoked' = invoked + 1
    /\ last' = [op |-> "fetch_call"]
    /\ UNCHANGED << mock, returned, first_fetch, last_fetch, hcSeen,
                    fees_given, error_given >>
    /\ UNCHANGED << errVars, dbVars >>

\* self.call_count.fetch_add(1, Ordering::SeqCst)
FetchAdd(c) ==
    /\ pc[c] = "called"
    /\ pc' = [pc EXCEPT ![c] = "counted"]
    /\ mock' = [mock EXCEPT !.call_count = fetch_add(mock.call_count, 1)]
    /\ last' = [op |-> "fetch_add"]
    /\ UNCHANGED << invoked, returned, first_fetch, last_fetch, hcSeen,
                    fees_given, error_given >>
    /\ UNCHANGED << errVars, dbVars >>

\* the rest of the body: Err(configured error) or Ok(responses.clone())
FetchReturn(c) ==
    /\ pc[c] = "counted"
    /\ pc' = [pc EXCEPT ![c] = "idle"]
    /\ LET obs == [healthy |-> mock.healthy, ret |-> fetch_result(mock)]
       IN /\ returned' = IF obs.ret.ok
                         THEN [returned EXCEPT !.ok = @ + 1]
                         ELSE [returned EXCEPT !.err = @ + 1]
          /\ first_fetch' = IF first_fetch = None THEN Some(obs) ELSE first_fetch
          /\ last_fetch' = IF first_fetch = None THEN None ELSE Some(obs)
          /\ last' = [op |-> "fetch_return", ret |-> obs.ret]
    /\ UNCHANGED << mock, invoked, hcSeen, fees_given, error_given >>
    /\ UNCHANGED << errVars, dbVars >>

HealthCheck ==
    /\ LET r == health_check(mock)
       IN /\ hcSeen' = hcSeen \cup { [healthy |-> mock.healthy, ret |-> r] }
          /\ last' = [op |-> "health_check", ret |-> r]
    /\ UNCHANGED << mock, pc, invoked, returned, first_fetch, last_fetch,
                    fees_given, error_given >>
    /\ UNCHANGED << errVars, dbVars >>

GetMetadata ==
    /\ last' = [op |-> "get_metadata", ret |-> get_metadata(mock)]
    /\ UNCHANGED << mock, pc, invoked, returned, first_fetch, last_fetch, hcSeen,
                    fees_given, error_given >>
    /\ UNCHANGED << errVars, dbVars >>

ProviderName ==
    /\ last' = [op |-> "provider_name", ret |-> provider_name(mock)]
    /\ UNCHANGED << mock, pc, invoked, returned, first_fetch, last_fetch, hcSeen,
                    fees_given, error_given >>
    /\ UNCHANGED << errVars, dbVars >>

Calls ==
    /\ last' = [op |-> "calls", ret |-> calls(mock)]
    /\ UNCHANGED << mock, pc, invoked, returned, first_fetch, last_fetch, hcSeen,
                    fees_given, error_given >>
    /\ UNCHANGED << errVars, dbVars >>

Fetch == \E c \in Callers : FetchCall(c) \/ FetchAdd(c) \/ FetchReturn(c)

Next ==
    \/ WithFees
    \/ WithError
    \/ WithHealthy
    \/ Fetch
    \/ HealthCheck
    \/ GetMetadata
    \/ ProviderName
    \/ Calls


\* ================================================================ AppError
\* Strings are sequences of characters, so that formatting is concatenation.
MsgChars == { "x", ":" }
Msgs == SeqUpTo(MsgChars, MaxMsgLen)

Variants == { "Config", "Network", "Parse", "Unknown" }

\* enum AppError { Config(String), Network(String), Parse(String), Unknown(String) }
AppError == { [variant |-> v, msg |-> m] : v \in Variants, m \in Msgs }

\* http::StatusCode
INTERNAL_SERVER_ERROR == 500
BAD_GATEWAY == 502
UNPROCESSABLE_ENTITY == 422

\* the literal parts of the four write! format strings
ConfigPrefix == << "C", "o", "n", "f", "i", "g", " ", "e", "r", "r", "o", "r", ":", " " >>
NetworkPrefix == << "N", "e", "t", "w", "o", "r", "k", " ", "e", "r", "r", "o", "r", ":", " " >>
ParsePrefix == << "P", "a", "r", "s", "e", " ", "e", "r", "r", "o", "r", ":", " " >>
UnknownPrefix == << "U", "n", "k", "n", "o", "w", "n", " ", "e", "r", "r", "o", "r", ":", " " >>

\* faulty variant: Display prints the message alone
to_string_bare(self) == self.msg

\* impl fmt::Display for AppError (reached through to_string)
to_string(self) ==
    CASE self.variant = "Config" -> ConfigPrefix \o self.msg
      [] self.variant = "Network" -> NetworkPrefix \o self.msg
      [] self.variant = "Parse" -> ParsePrefix \o self.msg
      [] self.variant = "Unknown" -> UnknownPrefix \o self.msg

\* faulty variant: a malformed payload is reported as 400 Bad Request
into_response_parse_400(self) ==
    [status |-> CASE self.variant = "Config" -> INTERNAL_SERVER_ERROR
                  [] self.variant = "Network" -> BAD_GATEWAY
                  [] self.variant = "Parse" -> 400
                  [] self.variant = "Unknown" -> INTERNAL_SERVER_ERROR,
     body |-> [error |-> to_string(self)]]

\* impl IntoResponse for AppError
into_response(self) ==
    [status |-> CASE self.variant = "Config" -> INTERNAL_SERVER_ERROR
                  [] self.variant = "Network" -> BAD_GATEWAY
                  [] self.variant = "Parse" -> UNPROCESSABLE_ENTITY
                  [] self.variant = "Unknown" -> INTERNAL_SERVER_ERROR,
     body |-> [error |-> to_string(self)]]

ErrorInit ==
    /\ app_err = None
    /\ display = None
    /\ response = None
    /\ prev_response = None

\* an AppError value is constructed somewhere in the application
MakeError ==
    \E e \in AppError :
        /\ app_err' = Some(e)
        /\ display' = None
        /\ UNCHANGED << response, prev_response >>
        /\ UNCHANGED << mockVars, dbVars >>

\* err.to_string()
ToString ==
    /\ app_err # None
    /\ display' = Some(to_string(app_err[1]))
    /\ UNCHANGED << app_err, response, prev_response >>
    /\ UNCHANGED << mockVars, dbVars >>

\* err.into_response(): consumes the error
IntoResponse ==
    /\ app_err # None
    /\ response' = Some([err |-> app_err[1], resp |-> into_response(app_err[1])])
    /\ prev_response' = response
    /\ app_err' = None
    /\ display' = None
    /\ UNCHANGED << mockVars, dbVars >>

ErrorNext ==
    \/ MakeError
    \/ ToString
    \/ IntoResponse

\* ================================================================ database
MemoryUrl == "sqlite::memory:"
FileUrl == "sqlite://stellar_fees.db"
ValidUrls == { MemoryUrl, FileUrl }
Urls == ValidUrls \cup { "not-a-connection-string" }

TableNames == { "fee_data_points", "fee_snapshots" }

\* the migration set under ./migrations: one CREATE TABLE IF NOT EXISTS per table
Migrations ==
    << [version |-> 1,
        table |-> "fee_data_points",
        columns |-> { "fee_amount", "timestamp", "transaction_hash", "ledger_sequence" },
        if_not_exists |-> TRUE],
       [version |-> 2,
        table |-> "fee_snapshots",
        columns |-> { "base_fee", "min_fee", "max_fee", "avg_fee", "captured_at" },
        if_not_exists |-> TRUE] >>

\* the INSERT statements of the two table tests
InsertStatements ==
    { [table |-> "fee_data_points",
       columns |-> { "fee_amount", "timestamp", "transaction_hash", "ledger_sequence" }],
      [table |-> "fee_snapshots",
       columns |-> { "base_fee", "min_fee", "max_fee", "avg_fee", "captured_at" }] }

\* a database with no table and no migration recorded
EmptyDb ==
    [tables |-> {}, applied |-> {}, rows |-> [t \in TableNames |-> 0]]

HasTable(db, name) == \E t \in db.tables : t.name = name

\* one migration's statement: CREATE TABLE [IF NOT EXISTS] table (columns)
execute_migration(db, m) ==
    IF HasTable(db, m.table)
    THEN [ok |-> m.if_not_exists, db |-> db]
    ELSE [ok |-> TRUE,
          db |-> [db EXCEPT !.tables = @ \cup { [name |-> m.table, columns |-> m.columns] }]]

RECURSIVE apply_from(_, _)
\* the migrations from the i-th on, in order; one already recorded is skipped
apply_from(db, i) ==
    IF i > Len(Migrations)
    THEN [ok |-> TRUE, db |-> db]
    ELSE LET m == Migrations[i]
         IN IF m.version \in db.applied
            THEN apply_from(db, i + 1)
            ELSE LET r == execute_migration(db, m)
                 IN IF r.ok
                    THEN apply_from([r.db EXCEPT !.applied = @ \cup { m.version }], i + 1)
                    ELSE r

\* sqlx::migrate!("./migrations").run(&pool)
migrate_run(db) == apply_from(db, 1)

\* SqlitePool::connect: an in-memory database starts empty
connect(state, url, reachable) ==
    IF url \in ValidUrls /\ reachable
    THEN [ok |-> TRUE, db |-> IF url = MemoryUrl THEN EmptyDb ELSE state[url]]
    ELSE [ok |-> FALSE]

\* faulty variant: the pool is handed out without running the migrations
create_pool_without_migrate(state, url, reachable) ==
    LET c == connect(state, url, reachable)
    IN IF ~c.ok
       THEN [ok |-> FALSE, pool |-> None, dbs |-> state]
       ELSE [ok |-> TRUE, pool |-> Some(url), dbs |-> [state EXCEPT ![url] = c.db]]

\* create_pool: connect, run the migrations, return the pool; `?` on both
create_pool(state, url, reachable) ==
    LET c == connect(state, url, reachable)
    IN IF ~c.ok
       THEN [ok |-> FALSE, pool |-> None, dbs |-> state]
       ELSE LET r == migrate_run(c.db)
            IN IF ~r.ok
               THEN [ok |-> FALSE, pool |-> None, dbs |-> [state EXCEPT ![url] = r.db]]
               ELSE [ok |-> TRUE, pool |-> Some(url), dbs |-> [state EXCEPT ![url] = r.db]]

\* an INSERT succeeds when the table exists and has the named columns
insert_ok(db, stmt) ==
    \E t \in db.tables : t.name = stmt.table /\ stmt.columns \subseteq t.columns

Schema(db) == db.tables

DbInit ==
    /\ dbs = [u \in ValidUrls |-> EmptyDb]
    /\ pool = None
    /\ runs = 0
    /\ db_last = [op |-> "none"]

CreatePool ==
    \E url \in Urls, reachable \in BOOLEAN :
        /\ pool = None
        /\ LET r == create_pool(dbs, url, reachable)
           IN /\ dbs' = r.dbs
              /\ pool' = r.pool
              /\ db_last' = [op |-> "create_pool", ok |-> r.ok]
        /\ runs' = 0
        /\ UNCHANGED << mockVars, errVars >>

\* the migration set is run again on the pool create_pool returned
RunMigrations ==
    /\ pool # None
    /\ runs < MaxRuns
    /\ LET r == migrate_run(dbs[pool[1]])
       IN /\ dbs' = [dbs EXCEPT ![pool[1]] = r.db]
          /\ db_last' = [op |-> "migrate_run",
                         ok |-> r.ok,
                         before |-> dbs[pool[1]],
                         after |-> r.db]
    /\ runs' = runs + 1
    /\ UNCHANGED pool
    /\ UNCHANGED << mockVars, errVars >>

Insert ==
    \E stmt \in InsertStatements :
        /\ pool # None
        /\ dbs[pool[1]].rows[stmt.table] < MaxRows
        /\ LET ok == insert_ok(dbs[pool[1]], stmt)
           IN /\ dbs' = IF ok
                        THEN [dbs EXCEPT ![pool[1]].rows[stmt.table] = @ + 1]
                        ELSE dbs
              /\ db_last' = [op |-> "insert", ok |-> ok]
        /\ UNCHANGED << pool, runs >>
        /\ UNCHANGED << mockVars, errVars >>

\* the pool is dropped
ClosePool ==
    /\ pool # None
    /\ pool' = None
    /\ db_last' = [op |-> "close"]
    /\ UNCHANGED << dbs, runs >>
    /\ UNCHANGED << mockVars, errVars >>

DbNext ==
    \/ CreatePool
    \/ RunMigrations
    \/ Insert
    \/ ClosePool

\* ========================================================== specifications
Init == MockInit /\ ErrorInit /\ DbInit

Spec == Init /\ [][Next]_vars

SpecError == Init /\ [][ErrorNext]_vars

SpecDb == Init /\ [][DbNext]_vars

\* ----------------------------------------------------------------- claims
InFlightCounted == { c \in Callers : pc[c] = "counted" }
Returned == returned.ok + returned.err

\* C1: the call counter is incremented exactly once per fetch_latest_fees
\* invocation, whether it returns Ok or Err and however the callers interleave:
\* the counter equals the invocations that returned plus those that have passed
\* the increment, so with no call in flight calls() is the number of calls made.
C1_CounterCountsEveryCall ==
    /\ calls(mock) = Returned + Cardinality(InFlightCounted)
    /\ AllIdle => calls(mock) = invoked
    /\ (last.op = "calls" /\ AllIdle) => last.ret = Returned

C1_Witness ==
    /\ last.op = "calls"
    /\ AllIdle
    /\ returned.ok >= 1
    /\ returned.err >= 1
    /\ last.ret = MaxCalls

\* C2: points and error are mutually exclusive outcomes: a fetch returns Err
\* exactly when with_error has been called, whatever with_fees calls came
\* before or after it, and Ok when with_error was never called.
C2_ErrorSuppressesPoints ==
    /\ \A f \in { first_fetch, last_fetch } \ { None } :
          (error_given # None <=> ~f[1].ret.ok)
    /\ (last.op = "fetch_return") =>
          (error_given # None <=> ~last.ret.ok)

C2_Witness ==
    /\ last.op = "fetch_return"
    /\ error_given # None
    /\ Len(fees_given) = MaxLen
    /\ ~last.ret.ok

\* C3: health_check depends on the healthy flag alone (Ok when healthy,
\* Err(ServiceUnavailable) when not, healthy by default) and fetch_latest_fees
\* does not depend on the healthy flag: two observations that agree on the
\* flag agree on health_check's result, and fetches under the same points and
\* error agree whatever the flag was.
C3_HealthAndFetchIndependent ==
    /\ new.healthy
    /\ \A a, b \in hcSeen : a.healthy = b.healthy => a.ret = b.ret
    /\ \A a \in hcSeen :
          a.ret = IF a.healthy THEN Ok(Unit)
                  ELSE Err([variant |-> "ServiceUnavailable"])
    /\ (first_fetch # None /\ last_fetch # None) =>
          first_fetch[1].ret = last_fetch[1].ret

C3_Witness ==
    /\ Cardinality(hcSeen) = 2
    /\ first_fetch # None
    /\ last_fetch # None
    /\ first_fetch[1].healthy # last_fetch[1].healthy
    /\ mock.error # None
    /\ mock.healthy

\* C6: with an error configured, the first and every later fetch returns an
\* error equal to the configured one: same variant, same message for
\* NetworkError/FormatError/AuthError, no message for RateLimitExceeded and
\* ServiceUnavailable; fetching leaves the configured error in place.
C6_ConfiguredErrorReturned ==
    error_given # None =>
        \A f \in { first_fetch, last_fetch } \ { None } :
            /\ f[1].ret = Err(error_given[1])
            /\ mock.error = error_given
            /\ IF f[1].ret.err.variant \in { "RateLimitExceeded", "ServiceUnavailable" }
               THEN DOMAIN f[1].ret.err = { "variant" }
               ELSE /\ DOMAIN f[1].ret.err = { "variant", "message" }
                    /\ f[1].ret.err.message = error_given[1].message

C6_Witness ==
    /\ first_fetch # None
    /\ last_fetch # None
    /\ ~last_fetch[1].ret.ok
    /\ last_fetch[1].ret.err = [variant |-> "FormatError", message |-> "down"]

\* C7: with no error configured, every fetch returns exactly the sequence
\* given to the last with_fees call (the empty sequence if there was none):
\* the k-th fetch returns what the first returned, and the stored points are
\* still the ones given.
C7_ConfiguredPointsReturned ==
    error_given = None =>
        /\ \A f \in { first_fetch, last_fetch } \ { None } :
              /\ f[1].ret = Ok(fees_given)
              /\ Len(f[1].ret.val) = Len(fees_given)
              /\ mock.responses = fees_given
        /\ last.op = "fetch_return" => last.ret = Ok(fees_given)

C7_Witness ==
    /\ first_fetch # None
    /\ last_fetch # None
    /\ error_given = None
    /\ Len(fees_given) = 2
    /\ fees_given[1] # fees_given[2]
    /\ last_fetch[1].ret.val = fees_given

StaticMetadata ==
    [supports_historical |-> FALSE,
     max_batch_size |-> 100,
     rate_limit_per_minute |-> None,
     data_freshness_seconds |-> 5]

\* C9: in every reachable state of the mock get_metadata returns
\* supports_historical=false, max_batch_size=100, rate_limit_per_minute=None,
\* data_freshness_seconds=5 and provider_name returns "MockHorizon".
C9_MetadataStatic ==
    /\ get_metadata(mock) = StaticMetadata
    /\ provider_name(mock) = "MockHorizon"
    /\ last.op = "get_metadata" => last.ret = StaticMetadata
    /\ last.op = "provider_name" => last.ret = "MockHorizon"

C9_Witness ==
    /\ last.op = "get_metadata"
    /\ mock.error # None
    /\ ~mock.healthy
    /\ Len(mock.responses) = MaxLen
    /\ Returned >= 1
    /\ hcSeen # {}

ReadOnlyOps == { "health_check", "get_metadata", "provider_name", "calls" }
FetchOps == { "fetch_call", "fetch_add", "fetch_return" }

\* C10: only fetch_latest_fees changes the call counter and it changes nothing
\* else: health_check, get_metadata, provider_name and calls() leave it
\* unchanged, a fetch leaves points, error and healthy flag unchanged, and the
\* counter never decreases over any step.
C10_CounterFrame ==
    [][ /\ mock'.call_count >= mock.call_count
        /\ (mock'.call_count # mock.call_count) =>
              (last'.op = "fetch_add" /\ mock'.call_count = mock.call_count + 1)
        /\ (last'.op \in ReadOnlyOps) => mock' = mock
        /\ (last'.op \in FetchOps) =>
              /\ mock'.responses = mock.responses
              /\ mock'.error = mock.error
              /\ mock'.healthy = mock.healthy ]_vars

C10_Witness ==
    /\ last.op = "with_healthy"
    /\ mock.call_count = MaxCalls
    /\ hcSeen # {}

\* the last two responses came from AppError values of different variants
TwoVariants ==
    /\ response # None
    /\ prev_response # None
    /\ response[1].err.variant # prev_response[1].err.variant

\* C4 (as stated): any two AppError values of different variants get responses
\* with different HTTP statuses.
C4_StatusDistinctPerVariant ==
    TwoVariants => response[1].resp.status # prev_response[1].resp.status

\* C4 (amended): two AppError values of different variants get the same status
\* exactly when they are Config and Unknown (both 500); the "error" text of
\* their responses always differs, so status and body together tell the four
\* classes apart.
C4_StatusOrBodyDistinct ==
    TwoVariants =>
        /\ (response[1].resp.status = prev_response[1].resp.status
              <=> { response[1].err.variant, prev_response[1].err.variant }
                     = { "Config", "Unknown" })
        /\ response[1].resp.body.error # prev_response[1].resp.body.error

C4_Witness ==
    /\ TwoVariants
    /\ response[1].err.variant = "Config"
    /\ prev_response[1].err.variant = "Unknown"
    /\ response[1].err.msg = prev_response[1].err.msg
    /\ response[1].resp.status = prev_response[1].resp.status

StatusOf(variant) ==
    CASE variant = "Config" -> 500
      [] variant = "Network" -> 502
      [] variant = "Parse" -> 422
      [] variant = "Unknown" -> 500

PrefixOf(variant) ==
    CASE variant = "Config" -> ConfigPrefix
      [] variant = "Network" -> NetworkPrefix
      [] variant = "Parse" -> ParsePrefix
      [] variant = "Unknown" -> UnknownPrefix

IsPrefixedMessage(text, variant, msg) ==
    LET n == Len(PrefixOf(variant))
    IN /\ Len(text) = n + Len(msg)
       /\ SubSeq(text, 1, n) = PrefixOf(variant)
       /\ SubSeq(text, n + 1, Len(text)) = msg

\* C5: into_response gives 500 for Config, 502 for Network, 422 for Parse and
\* 500 for Unknown whatever the message, and the Display text, also the
\* response's "error" field, is the variant's prefix followed by the message.
C5_StatusAndDisplay ==
    /\ response # None =>
          /\ response[1].resp.status = StatusOf(response[1].err.variant)
          /\ IsPrefixedMessage(response[1].resp.body.error,
                               response[1].err.variant, response[1].err.msg)
    /\ display # None =>
          IsPrefixedMessage(display[1], app_err[1].variant, app_err[1].msg)

C5_Witness ==
    /\ response # None
    /\ prev_response # None
    /\ response[1].err.variant = "Parse"
    /\ prev_response[1].err.variant = "Parse"
    /\ response[1].err.msg # prev_response[1].err.msg
    /\ Len(response[1].err.msg) = MaxMsgLen
    /\ display # None

ExpectedSchema ==
    { [name |-> "fee_data_points",
       columns |-> { "fee_amount", "timestamp", "transaction_hash", "ledger_sequence" }],
      [name |-> "fee_snapshots",
       columns |-> { "base_fee", "min_fee", "max_fee", "avg_fee", "captured_at" }] }

====
